---------------------------- MODULE Spec2Model ----------------------------
(***************************************************************************)
(* Model of the rebalance decision and simulation engine of the            *)
(* portfolio rebalancer: tracker.py (portfolio value, current allocations, *)
(* trade proposals) and simulator.py (quotes, per-trade estimates, the     *)
(* summary).                                                               *)
(*                                                                         *)
(* Numbers.  The Python code computes with floats.  A number is here      *)
(* either an exact rational <<n, d>> in lowest terms with d > 0, on which  *)
(* +, -, *, /, abs, max and the comparisons are the exact ones (the        *)
(* rounding of binary floating point is then not modelled), or a binary64  *)
(* number <<s, m, e>>, on which every operation rounds to nearest, ties to *)
(* even, as Python's does.  An operation with a binary64 operand is the    *)
(* binary64 one.  The input sets of Spec, SimSpec, AllocSpec and RunSpec   *)
(* hold rationals; those of ScenarioSpec hold binary64 numbers.            *)
(*                                                                         *)
(* Maps.  A Python dict is a function whose DOMAIN is its key set; the     *)
(* ordered dict `targets` is a sequence of <<token, fraction>> pairs with  *)
(* distinct tokens, in insertion order.                                    *)
(***************************************************************************)
EXTENDS Integers, Sequences, FiniteSets, TLC

VARIABLES
    targets,    \* tracker input: ordered <<token, target fraction>> pairs
    balances,   \* tracker input: token -> quantity (partial map)
    prices,     \* tracker and simulator input: token -> price (partial map)
    calls,      \* the (at most two) most recent propose_rebalance_trades calls
    sim_in,     \* simulator input: trades, slippage_bps, gas_cost_usd
    sim_out,    \* <<>>, or <<r>> with r the value simulate_trades returned
    alloc_out,  \* <<>>, or <<a>> with a the value current_allocations returned
    pc,         \* run_once: the step the cycle has reached ("idle": no cycle)
    cfg,        \* run_once: the thresholds of the loaded config
    dry_run,    \* run_once: its dry_run argument
    db,         \* run_once: what _get_db returned ("none", "ok", "failing")
    exec,       \* run_once: <<>>, or <<e>> with e the constructed Executor
    exec_results, \* Executor.execute: its local list `results`
    trace       \* run_once: the calls made so far, in order

runVars == <<pc, cfg, dry_run, db, exec, exec_results, trace>>

vars == <<targets, balances, prices, calls, sim_in, sim_out, alloc_out, runVars>>

-----------------------------------------------------------------------------
(* Exact rational arithmetic.                                              *)

Abs(n) == IF n < 0 THEN -n ELSE n

RECURSIVE GCD(_, _)
GCD(a, b) == IF b = 0 THEN a ELSE GCD(b, a % b)

\* float(n / d): the rational n/d in lowest terms, denominator positive.
Rat(n, d) ==
    LET s == IF d < 0 THEN -1 ELSE 1
        g == GCD(Abs(n), Abs(d))
    IN  <<(s * n) \div g, (s * d) \div g>>

Zero == Rat(0, 1)
One == Rat(1, 1)

-----------------------------------------------------------------------------
(* Binary64 arithmetic.                                                    *)
(*                                                                         *)
(* Natural numbers of any size are sequences of limbs below LimbBase,      *)
(* least significant first, without a leading zero limb; <<>> is 0.  A     *)
(* binary64 number is <<s, m, e>>, standing for (-1)^s * m * 2^e with m a  *)
(* natural of exactly MantBits bits, or FZero.  Infinities, NaN,           *)
(* subnormals and -0.0 are left out: the amounts of the model stay far     *)
(* from them.                                                              *)
-----------------------------------------------------------------------------
LimbBits == 15
LimbBase == 2^LimbBits
MantBits == 53
FZero == <<0, <<>>, 0>>

Limb(a, i) == IF i <= Len(a) THEN a[i] ELSE 0
LZeros(k) == [i \in 1..k |-> 0]

\* The operations on naturals and on binary64 numbers are the cases of one
\* recursive operator, Num, defined below; here are their names.
RECURSIVE Num(_, _)
LTrim(a) == Num("LTrim", <<a>>)
LFromNat(n) == Num("LFromNat", <<n>>)
LAdd(a, b) == Num("LAddFrom", <<a, b, 1, 0, <<>>>>)
LSub(a, b) == LTrim(Num("LSubFrom", <<a, b, 1, 0, <<>>>>))
LCmp(a, b) == Num("LCmp", <<a, b>>)
LMulLimb(a, m) == Num("LMulLimb", <<a, m>>)
LMul(a, b) == Num("LMulFrom", <<a, b, 1, <<>>>>)
LShl(a, k) == Num("LShl", <<a, k>>)
LShr(a, k) == Num("LShr", <<a, k>>)
LLow(a, k) == Num("LLow", <<a, k>>)
LBitLen(a) == Num("LBitLen", <<a>>)
LDivMod(a, b) == Num("LDivModFrom", <<a, b, Len(a), <<>>, <<>>>>)
FRound(s, n, e, sticky) == Num("FRound", <<s, n, e, sticky>>)
FNeg(a) == IF a[2] = <<>> THEN a ELSE <<1 - a[1], a[2], a[3]>>
FAbs(a) == <<0, a[2], a[3]>>
FAdd(a, b) == Num("FAdd", <<a, b>>)
FSub(a, b) == Num("FSub", <<a, b>>)
FMul(a, b) == Num("FMul", <<a, b>>)
FDiv(a, b) == Num("FDiv", <<a, b>>)
FLt(a, b) == Num("FLt", <<a, b>>)
FLe(a, b) == ~Num("FLt", <<b, a>>)
FromInt(n) == Num("FromInt", <<n>>)
Float(n, d) == Num("Float", <<n, d>>)
\* float(a): a rational operand of a binary64 operation is first converted
AsFloat(a) == IF Len(a) = 3 THEN a ELSE Float(a[1], a[2])

Num(op, x) ==
    CASE op = "LTrim" ->
            \* x[1] without its leading zero limbs
            IF x[1] = <<>> THEN x[1]
            ELSE IF x[1][Len(x[1])] # 0 THEN x[1]
            ELSE LTrim(SubSeq(x[1], 1, Len(x[1]) - 1))
      [] op = "LFromNat" ->
            \* the limbs of the natural number x[1]
            IF x[1] = 0 THEN <<>>
            ELSE <<x[1] % LimbBase>> \o LFromNat(x[1] \div LimbBase)
      [] op = "BitLength" ->
            \* the number of bits of the natural number x[1]
            IF x[1] = 0 THEN 0 ELSE 1 + Num("BitLength", <<x[1] \div 2>>)
      [] op = "LAddFrom" ->
            \* a + b from limb i on, with the carry and the limbs so far
            LET a == x[1]
                b == x[2]
                i == x[3]
                s == Limb(a, i) + Limb(b, i) + x[4]
            IN  IF i > Len(a) /\ i > Len(b)
                THEN IF x[4] = 0 THEN x[5] ELSE Append(x[5], x[4])
                ELSE Num("LAddFrom",
                         <<a, b, i + 1, s \div LimbBase, Append(x[5], s % LimbBase)>>)
      [] op = "LSubFrom" ->
            \* a - b (for a >= b) from limb i on, with the borrow
            LET a == x[1]
                b == x[2]
                i == x[3]
                d == Limb(a, i) - Limb(b, i) - x[4]
            IN  IF i > Len(a) THEN x[5]
                ELSE Num("LSubFrom",
                         <<a, b, i + 1, IF d < 0 THEN 1 ELSE 0, Append(x[5], d % LimbBase)>>)
      [] op = "LCmp" ->
            \* -1, 0, 1 as a < b, a = b, a > b
            IF Len(x[1]) < Len(x[2]) THEN -1
            ELSE IF Len(x[1]) > Len(x[2]) THEN 1
            ELSE Num("LCmpFrom", <<x[1], x[2], Len(x[1])>>)
      [] op = "LCmpFrom" ->
            LET a == x[1]
                b == x[2]
                i == x[3]
            IN  IF i = 0 THEN 0
                ELSE IF a[i] < b[i] THEN -1
                ELSE IF a[i] > b[i] THEN 1
                ELSE Num("LCmpFrom", <<a, b, i - 1>>)
      [] op = "LMulLimb" ->
            \* a * m for one limb m
            IF x[2] = 0 THEN <<>> ELSE Num("LMulLimbFrom", <<x[1], x[2], 1, 0, <<>>>>)
      [] op = "LMulLimbFrom" ->
            LET a == x[1]
                i == x[3]
                s == a[i] * x[2] + x[4]
            IN  IF i > Len(a)
                THEN IF x[4] = 0 THEN x[5] ELSE Append(x[5], x[4])
                ELSE Num("LMulLimbFrom",
                         <<a, x[2], i + 1, s \div LimbBase, Append(x[5], s % LimbBase)>>)
      [] op = "LMulFrom" ->
            \* a * b from limb j of b on, added to x[4]
            LET a == x[1]
                b == x[2]
                j == x[3]
            IN  IF j > Len(b) THEN x[4]
                ELSE Num("LMulFrom",
                         <<a, b, j + 1,
                           LAdd(x[4], LTrim(LZeros(j - 1) \o LMulLimb(a, b[j])))>>)
      [] op = "LShl" ->
            \* a * 2^k
            IF x[1] = <<>> THEN x[1]
            ELSE LZeros(x[2] \div LimbBits) \o LMulLimb(x[1], 2^(x[2] % LimbBits))
      [] op = "LShr" ->
            \* a \div 2^k
            LET r == x[2] % LimbBits
                b == SubSeq(x[1], (x[2] \div LimbBits) + 1, Len(x[1]))
            IN  LTrim([i \in 1..Len(b) |->
                          (b[i] \div 2^r) + (Limb(b, i + 1) % 2^r) * 2^(LimbBits - r)])
      [] op = "LLow" ->
            \* a % 2^k
            LET a == x[1]
                q == x[2] \div LimbBits
                n == IF Len(a) <= q THEN Len(a) ELSE q + 1
            IN  LTrim([i \in 1..n |->
                          IF i <= q THEN a[i] ELSE a[i] % 2^(x[2] % LimbBits)])
      [] op = "LBitLen" ->
            \* the number of bits of a
            IF x[1] = <<>> THEN 0
            ELSE LimbBits * (Len(x[1]) - 1) + Num("BitLength", <<x[1][Len(x[1])]>>)
      [] op = "QuotientLimb" ->
            \* the largest limb d with d * b <= r, found bit by bit from bit
            \* x[3] down, for r < b * LimbBase; x[4] holds the bits found
            LET r == x[1]
                b == x[2]
                d == x[4] + 2^x[3]
            IN  IF x[3] < 0 THEN x[4]
                ELSE IF LCmp(LMulLimb(b, d), r) <= 0
                THEN Num("QuotientLimb", <<r, b, x[3] - 1, d>>)
                ELSE Num("QuotientLimb", <<r, b, x[3] - 1, x[4]>>)
      [] op = "LDivModFrom" ->
            \* <<a \div b, a % b>> for b > 0, by long division from limb i of
            \* a down; x[4] holds the quotient limbs found, x[5] the remainder
            LET a == x[1]
                b == x[2]
                i == x[3]
                r == LTrim(<<a[i]>> \o x[5])
                d == Num("QuotientLimb", <<r, b, LimbBits - 1, 0>>)
            IN  IF i = 0 THEN <<LTrim(x[4]), x[5]>>
                ELSE Num("LDivModFrom",
                         <<a, b, i - 1, <<d>> \o x[4], LSub(r, LMulLimb(b, d))>>)
      [] op = "FRound" ->
            \* (-1)^s * n * 2^e (plus a nonzero part below n's last bit when
            \* sticky), rounded to the nearest binary64, ties to even
            LET s == x[1]
                n == x[2]
                e == x[3]
                sh == LBitLen(n) - MantBits
                q == LShr(n, sh)
                c == LCmp(LLow(n, sh), LShl(<<1>>, sh - 1))
                up == c > 0 \/ (c = 0 /\ (x[4] \/ q[1] % 2 = 1))
                q2 == IF up THEN LAdd(q, <<1>>) ELSE q
            IN  IF n = <<>> THEN FZero
                ELSE IF sh <= 0 THEN <<s, LShl(n, -sh), e + sh>>
                ELSE IF LBitLen(q2) > MantBits
                THEN <<s, LShr(q2, 1), e + sh + 1>>
                ELSE <<s, q2, e + sh>>
      [] op = "FAdd" ->
            LET a == AsFloat(x[1])
                b == AsFloat(x[2])
                e == IF a[3] < b[3] THEN a[3] ELSE b[3]
                ma == LShl(a[2], a[3] - e)
                mb == LShl(b[2], b[3] - e)
                c == LCmp(ma, mb)
            IN  IF a[2] = <<>> THEN b
                ELSE IF b[2] = <<>> THEN a
                ELSE IF a[1] = b[1] THEN FRound(a[1], LAdd(ma, mb), e, FALSE)
                ELSE IF c = 0 THEN FZero
                ELSE IF c > 0 THEN FRound(a[1], LSub(ma, mb), e, FALSE)
                ELSE FRound(b[1], LSub(mb, ma), e, FALSE)
      [] op = "FSub" ->
            FAdd(x[1], FNeg(AsFloat(x[2])))
      [] op = "FMul" ->
            LET a == AsFloat(x[1])
                b == AsFloat(x[2])
            IN  IF a[2] = <<>> \/ b[2] = <<>> THEN FZero
                ELSE FRound((a[1] + b[1]) % 2, LMul(a[2], b[2]), a[3] + b[3], FALSE)
      [] op = "FDiv" ->
            \* Python raises ZeroDivisionError on b = 0: the quotient then
            \* has no value
            LET a == AsFloat(x[1])
                b == AsFloat(x[2])
                qr == LDivMod(LShl(a[2], MantBits + 2), b[2])
            IN  IF b[2] = <<>> THEN CHOOSE q \in {} : TRUE
                ELSE IF a[2] = <<>> THEN FZero
                ELSE FRound((a[1] + b[1]) % 2, qr[1],
                            a[3] - b[3] - (MantBits + 2), qr[2] # <<>>)
      [] op = "FLt" ->
            LET d == FSub(x[1], x[2])
            IN  d[2] # <<>> /\ d[1] = 1
      [] op = "FromInt" ->
            \* float(n) for an integer n
            FRound(IF x[1] < 0 THEN 1 ELSE 0,
                   LFromNat(IF x[1] < 0 THEN -x[1] ELSE x[1]), 0, FALSE)
      [] op = "Float" ->
            \* the float literal n/d
            FDiv(FromInt(x[1]), FromInt(x[2]))

-----------------------------------------------------------------------------
(* The operations of the code: binary64 when an operand is, exact          *)
(* otherwise.                                                              *)
-----------------------------------------------------------------------------
IsFloat(a) == Len(a) = 3

\* Denominators are combined through their gcd, which keeps the intermediate
\* integers small.
RAdd(a, b) ==
    IF IsFloat(a) \/ IsFloat(b) THEN FAdd(a, b)
    ELSE LET g == GCD(a[2], b[2])
         IN  Rat(a[1] * (b[2] \div g) + b[1] * (a[2] \div g), (a[2] \div g) * b[2])
RSub(a, b) ==
    IF IsFloat(a) \/ IsFloat(b) THEN FSub(a, b)
    ELSE LET g == GCD(a[2], b[2])
         IN  Rat(a[1] * (b[2] \div g) - b[1] * (a[2] \div g), (a[2] \div g) * b[2])
RMul(a, b) ==
    IF IsFloat(a) \/ IsFloat(b) THEN FMul(a, b)
    ELSE LET g == GCD(Abs(a[1]), b[2])
             h == GCD(Abs(b[1]), a[2])
         IN  Rat((a[1] \div g) * (b[1] \div h), (a[2] \div h) * (b[2] \div g))
\* Python raises ZeroDivisionError on b = 0: the quotient then has no value.
RDiv(a, b) ==
    IF IsFloat(a) \/ IsFloat(b) THEN FDiv(a, b)
    ELSE IF b[1] = 0 THEN CHOOSE q \in {} : TRUE
    ELSE RMul(a, Rat(b[2], b[1]))
RAbs(a) == IF IsFloat(a) THEN FAbs(a) ELSE <<Abs(a[1]), a[2]>>
RLt(a, b) ==
    IF IsFloat(a) \/ IsFloat(b) THEN FLt(a, b)
    ELSE LET g == GCD(a[2], b[2])
         IN  a[1] * (b[2] \div g) < b[1] * (a[2] \div g)
RLe(a, b) ==
    IF IsFloat(a) \/ IsFloat(b) THEN FLe(a, b)
    ELSE LET g == GCD(a[2], b[2])
         IN  a[1] * (b[2] \div g) <= b[1] * (a[2] \div g)
RMax(a, b) == IF RLt(a, b) THEN b ELSE a

\* dict.get(key, default)
Get(m, k, default) == IF k \in DOMAIN m THEN m[k] ELSE default

\* list(targets.keys()) and targets.get(t, 0.0) on the ordered dict.
Keys(tg) == [i \in 1..Len(tg) |-> tg[i][1]]
KeySet(tg) == {tg[i][1] : i \in 1..Len(tg)}
TargetOf(tg, t) ==
    IF t \in KeySet(tg)
    THEN (CHOOSE p \in {tg[i] : i \in 1..Len(tg)} : p[1] = t)[2]
    ELSE Zero

-----------------------------------------------------------------------------
(* tracker.py                                                              *)

RECURSIVE SumValues(_, _, _)
SumValues(S, bal, pr) ==
    IF S = {} THEN Zero
    ELSE LET t == CHOOSE x \in S : TRUE
         IN  RAdd(RMul(Get(bal, t, Zero), Get(pr, t, Zero)),
                  SumValues(S \ {t}, bal, pr))

compute_portfolio_value(bal, pr) ==
    SumValues(DOMAIN bal \cup DOMAIN pr, bal, pr)

\* current_allocations with a guard that stops only a total of exactly zero.
current_allocations_zero_only(bal, pr, tokens) ==
    LET total == compute_portfolio_value(bal, pr)
        toks == {tokens[i] : i \in 1..Len(tokens)}
    IN  IF total = Zero
        THEN [t \in toks |-> Zero]
        ELSE [t \in toks |->
                 RDiv(RMul(Get(bal, t, Zero), Get(pr, t, Zero)), total)]

current_allocations(bal, pr, tokens) ==
    LET total == compute_portfolio_value(bal, pr)
        toks == {tokens[i] : i \in 1..Len(tokens)}
    IN  IF RLe(total, Zero)
        THEN [t \in toks |-> Zero]
        ELSE [t \in toks |->
                 RDiv(RMul(Get(bal, t, Zero), Get(pr, t, Zero)), total)]

\* A guard that lets a total of exactly zero through.
ZeroValueGuardNegativeOnly(total_value) == RLt(total_value, Zero)

\* tracker.py:105: `if total_value <= 0: continue`
ZeroValueGuard(total_value) == RLe(total_value, Zero)

\* The strict variant of the threshold test: a drift equal to the floor is skipped.
BelowThresholdStrict(desired_value_change, total_value, threshold_pct, min_trade_usd) ==
    RLe(RAbs(desired_value_change),
        RMax(min_trade_usd, RMul(RDiv(threshold_pct, Rat(100, 1)), total_value)))

\* The inverted threshold test: trades above the floor are the ones skipped.
BelowThresholdInverted(desired_value_change, total_value, threshold_pct, min_trade_usd) ==
    RLt(RMax(min_trade_usd, RMul(RDiv(threshold_pct, Rat(100, 1)), total_value)),
        RAbs(desired_value_change))

\* tracker.py:109: abs(dvc) < max(min_trade_usd, (threshold_pct / 100.0) * total_value)
BelowThreshold(desired_value_change, total_value, threshold_pct, min_trade_usd) ==
    RLt(RAbs(desired_value_change),
        RMax(min_trade_usd, RMul(RDiv(threshold_pct, Rat(100, 1)), total_value)))

\* A price guard that rejects only a zero price.
UnusablePriceZeroOnly(price) == price = Zero

\* tracker.py:112: `if price <= 0: continue`
UnusablePrice(price) == RLe(price, Zero)

\* A side rule with the two sides swapped.
SideOfSwapped(delta) == IF RLt(Zero, delta) THEN "sell" ELSE "buy"

\* tracker.py:115: side = "buy" if delta > 0 else "sell"
SideOf(delta) == IF RLt(Zero, delta) THEN "buy" ELSE "sell"

\* One pass of the body of the for loop (tracker.py:101-125) for token t:
\* the list `trades` after the pass.
ProposeStep(trades, t, tg, pr, curr_alloc, total_value, threshold_pct, min_trade_usd) ==
    LET target == TargetOf(tg, t)
        current == Get(curr_alloc, t, Zero)
        delta == RSub(target, current)
        desired_value_change == RMul(delta, total_value)
        price == Get(pr, t, Zero)
    IN  IF ZeroValueGuard(total_value) THEN trades
        ELSE IF BelowThreshold(desired_value_change, total_value,
                               threshold_pct, min_trade_usd) THEN trades
        ELSE IF UnusablePrice(price) THEN trades
        ELSE Append(trades,
                [token |-> t,
                 side |-> SideOf(delta),
                 amount |-> RDiv(RAbs(desired_value_change), price),
                 value_usd |-> RAbs(desired_value_change),
                 target_allocation |-> target,
                 current_allocation |-> current])

RECURSIVE ProposeLoop(_, _, _, _, _, _, _, _, _)
ProposeLoop(i, tokens, trades, tg, pr, curr_alloc, total_value, threshold_pct, min_trade_usd) ==
    IF i > Len(tokens) THEN trades
    ELSE ProposeLoop(i + 1, tokens,
             ProposeStep(trades, tokens[i], tg, pr, curr_alloc, total_value,
                         threshold_pct, min_trade_usd),
             tg, pr, curr_alloc, total_value, threshold_pct, min_trade_usd)

propose_rebalance_trades(tg, bal, pr, threshold_pct, min_trade_usd) ==
    LET tokens == Keys(tg)
        curr_alloc == current_allocations(bal, pr, tokens)
        total_value == compute_portfolio_value(bal, pr)
    IN  ProposeLoop(1, tokens, <<>>, tg, pr, curr_alloc, total_value,
                    threshold_pct, min_trade_usd)

-----------------------------------------------------------------------------
(* simulator.py                                                            *)

\* bps_to_fraction taking its argument for a percentage.
bps_to_fraction_percent(bps) == RMax(RDiv(bps, Rat(100, 1)), Zero)

\* simulator.py:8: max(float(bps) / 10000.0, 0.0)
bps_to_fraction(bps) == RMax(RDiv(bps, Rat(10000, 1)), Zero)

\* A quote that applies the buy-side adjustment to both sides.
get_dex_quote_buy_only(dex, token, side, amount, price, slippage_bps) ==
    RMul(price, RAdd(One, bps_to_fraction(slippage_bps)))

get_dex_quote(dex, token, side, amount, price, slippage_bps) ==
    LET slip == bps_to_fraction(slippage_bps)
    IN  IF side = "buy"
        THEN RMul(price, RAdd(One, slip))
        ELSE RMul(price, RSub(One, slip))

\* No floor: negative proceeds are reported as they are.
FloorAtZeroMissing(proceeds_usd) == proceeds_usd

\* simulator.py:49-50: `if proceeds_usd < 0: proceeds_usd = 0.0`
FloorAtZero(proceeds_usd) == IF RLt(proceeds_usd, Zero) THEN Zero ELSE proceeds_usd

estimate_trade(trade, price, slippage_bps, gas_cost_usd, dex) ==
    LET side == trade.side
        amount == trade.amount
        quoted_price == get_dex_quote(dex, trade.token, side, amount, price, slippage_bps)
    IN  IF side = "buy"
        THEN [token |-> trade.token,
              side |-> side,
              amount |-> amount,
              quoted_price |-> quoted_price,
              cost_usd |-> RAdd(RMul(amount, quoted_price), gas_cost_usd)]
        ELSE [token |-> trade.token,
              side |-> side,
              amount |-> amount,
              quoted_price |-> quoted_price,
              proceeds_usd |-> FloorAtZero(RSub(RMul(amount, quoted_price), gas_cost_usd))]

\* A drop test that also drops a price of one or less.
DropTradeUpToOne(price) == RLe(price, One)

\* A drop test that lets a zero price through.
DropTradeNegativeOnly(price) == RLt(price, Zero)

\* simulator.py:76: `if price <= 0: continue`
DropTrade(price) == RLe(price, Zero)

\* The net effect with the operands swapped.
NetEffectSwapped(total_sell_proceeds, total_buy_cost) ==
    RSub(total_buy_cost, total_sell_proceeds)

\* simulator.py:89: total_sell_proceeds - total_buy_cost
NetEffect(total_sell_proceeds, total_buy_cost) ==
    RSub(total_sell_proceeds, total_buy_cost)

\* simulator.py:79-84: the estimate res of trade tr is appended to the results
\* and added to the totals; acc holds results, total_buy_cost,
\* total_sell_proceeds and total_gas_usd.
Accumulate(acc, tr, res, gas_cost_usd) ==
    [results |-> Append(acc.results, res),
     total_buy_cost |->
         IF tr.side = "buy"
         THEN RAdd(acc.total_buy_cost, res.cost_usd)
         ELSE acc.total_buy_cost,
     total_sell_proceeds |->
         IF tr.side = "buy"
         THEN acc.total_sell_proceeds
         ELSE RAdd(acc.total_sell_proceeds, res.proceeds_usd),
     total_gas_usd |-> RAdd(acc.total_gas_usd, gas_cost_usd)]

\* One pass of the body of the for loop (simulator.py:73-84) for trade tr.
SimStep(acc, tr, pr, slippage_bps, gas_cost_usd, dex) ==
    LET price == Get(pr, tr.token, Zero)
    IN  IF DropTrade(price) THEN acc
        ELSE Accumulate(acc, tr,
                 estimate_trade(tr, price, slippage_bps, gas_cost_usd, dex),
                 gas_cost_usd)

RECURSIVE SimLoop(_, _, _, _, _, _, _)
SimLoop(i, trades, acc, pr, slippage_bps, gas_cost_usd, dex) ==
    IF i > Len(trades) THEN acc
    ELSE SimLoop(i + 1, trades,
             SimStep(acc, trades[i], pr, slippage_bps, gas_cost_usd, dex),
             pr, slippage_bps, gas_cost_usd, dex)

\* simulator.py:86-92: the summary and the returned dict.
SimReturn(acc) ==
    [trades |-> acc.results,
     summary |->
         [total_buy_cost_usd |-> acc.total_buy_cost,
          total_sell_proceeds_usd |-> acc.total_sell_proceeds,
          net_usd_effect |-> NetEffect(acc.total_sell_proceeds, acc.total_buy_cost),
          est_total_gas_usd |-> acc.total_gas_usd]]

simulate_trades(trades, pr, slippage_bps, gas_cost_usd, dex) ==
    SimReturn(SimLoop(1, trades,
                  [results |-> <<>>,
                   total_buy_cost |-> Zero,
                   total_sell_proceeds |-> Zero,
                   total_gas_usd |-> Zero],
                  pr, slippage_bps, gas_cost_usd, dex))

-----------------------------------------------------------------------------
(* Inputs.  Every set holds the values that make the cases of the code     *)
(* happen: missing entries, zero and negative prices, a zero floor, a      *)
(* drift equal to the floor, gas above the quoted value, negative slippage.*)

MaxBalance == 1
MaxTrades == 2

Tokens == {"ETH", "USDC"}

TargetFractions == {Zero, Rat(1, 2), One}

\* Ordered dicts over Tokens: sequences of pairs with distinct keys.
TargetMaps ==
    {tg \in UNION {[1..n -> Tokens \X TargetFractions] : n \in 0..Cardinality(Tokens)} :
        \A i, j \in 1..Len(tg) : i # j => tg[i][1] # tg[j][1]}

BalanceValues == {Rat(b, 1) : b \in 0..MaxBalance}
BalanceMaps == UNION {[S -> BalanceValues] : S \in SUBSET Tokens}

\* A token's price when it is usable, and the unusable prices.
MarketPrice(t) == IF t = "ETH" THEN Rat(2000, 1) ELSE One
PriceValues(t) == {Rat(-1, 1), Zero, MarketPrice(t)}
PriceMaps ==
    UNION {{pr \in [S -> UNION {PriceValues(t) : t \in Tokens}] :
                \A t \in S : pr[t] \in PriceValues(t)} : S \in SUBSET Tokens}

ThresholdPcts == {Zero, Rat(50, 1)}
MinTradeUsds == {Zero, Rat(1000, 1)}

SlippageBpsValues == {Rat(-50, 1), Zero, Rat(50, 1)}
GasCostValues == {Zero, Rat(5, 1)}
SimAmounts == {Rat(1, 2), Rat(1000, 1)}
SimTrades == [token : Tokens, side : {"buy", "sell"}, amount : SimAmounts]
TradeLists == UNION {[1..n -> SimTrades] : n \in 0..MaxTrades}

DefaultDex == "uniswap_v2"

\* simulate_trades called with no trades and its default slippage and gas.
DefaultSimIn ==
    [trades |-> <<>>, slippage_bps |-> Rat(50, 1), gas_cost_usd |-> Rat(5, 1)]

-----------------------------------------------------------------------------
(* The tracker as a state machine: the inputs are fixed by Init and        *)
(* propose_rebalance_trades is called on them with any thresholds, any     *)
(* number of times; `calls` keeps the two most recent calls.               *)

\* No run_once cycle is in progress.
NoRun ==
    /\ pc = "idle"
    /\ cfg = <<>>
    /\ dry_run = TRUE
    /\ db = "none"
    /\ exec = <<>>
    /\ exec_results = <<>>
    /\ trace = <<>>

Remember(history, call) ==
    IF Len(history) < 2 THEN Append(history, call) ELSE <<history[2], call>>

Init ==
    /\ targets \in TargetMaps
    /\ balances \in BalanceMaps
    /\ prices \in PriceMaps
    /\ calls = <<>>
    /\ sim_in = DefaultSimIn
    /\ sim_out = <<>>
    /\ alloc_out = <<>>
    /\ NoRun

Propose(threshold_pct, min_trade_usd) ==
    /\ calls' = Remember(calls,
           [threshold_pct |-> threshold_pct,
            min_trade_usd |-> min_trade_usd,
            trades |-> propose_rebalance_trades(targets, balances, prices,
                                                threshold_pct, min_trade_usd)])
    /\ UNCHANGED <<targets, balances, prices, sim_in, sim_out, alloc_out, runVars>>

Next ==
    \E threshold_pct \in ThresholdPcts, min_trade_usd \in MinTradeUsds :
        Propose(threshold_pct, min_trade_usd)

Spec == Init /\ [][Next]_vars

(* The simulator as a state machine: SimInit draws the price map, the      *)
(* trade list, the slippage and the gas cost, and Simulate applies         *)
(* simulate_trades to them.                                                *)

SimInit ==
    /\ targets = <<>>
    /\ balances = <<>>
    /\ prices \in PriceMaps
    /\ calls = <<>>
    /\ sim_in \in [trades : TradeLists,
                   slippage_bps : SlippageBpsValues,
                   gas_cost_usd : GasCostValues]
    /\ sim_out = <<>>
    /\ alloc_out = <<>>
    /\ NoRun

Simulate ==
    /\ sim_out' = <<simulate_trades(sim_in.trades, prices, sim_in.slippage_bps,
                                    sim_in.gas_cost_usd, DefaultDex)>>
    /\ UNCHANGED <<targets, balances, prices, calls, sim_in, alloc_out, runVars>>

SimNext == Simulate

SimSpec == SimInit /\ [][SimNext]_vars

(* current_allocations as a state machine: AllocInit draws the two maps    *)
(* and the requested tokens (the keys of `targets`), and Allocate applies  *)
(* current_allocations to them.                                            *)

AllocInit == Init

Allocate ==
    /\ alloc_out' = <<current_allocations(balances, prices, Keys(targets))>>
    /\ UNCHANGED <<targets, balances, prices, calls, sim_in, sim_out, runVars>>

AllocNext == Allocate

AllocSpec == AllocInit /\ [][AllocNext]_vars

-----------------------------------------------------------------------------
(* scheduler.py and executor.py: one run_once cycle, step by step.         *)
(*                                                                         *)
(* fetch_prices and fetch_balances are placeholders for the on-chain       *)
(* sources and return 0.0 for every token; here they return any map over   *)
(* the configured tokens, the placeholder's all-zero map included.  What   *)
(* MongoDB and the alert channels do is outside the program: an insert     *)
(* either stores the document or raises (and the code logs and goes on),   *)
(* and a send_alerts call is recorded as the call it is.                   *)

NoneValue == "None"

\* fetch_balances(address, tokens), fetch_prices(tokens, base): the maps
\* over exactly `tokens` that the source can return.
fetch_balances(tokens) ==
    [{tokens[i] : i \in 1..Len(tokens)} -> BalanceValues]
fetch_prices(tokens) ==
    {pr \in [{tokens[i] : i \in 1..Len(tokens)} -> UNION {PriceValues(t) : t \in Tokens}] :
        \A t \in DOMAIN pr : pr[t] \in PriceValues(t)}

\* The thresholds of config.json; slippage and gas at the values run_once
\* falls back to.
Configs ==
    [threshold_pct : {Zero, Rat(5, 2)},
     min_trade_usd : {Zero, Rat(100, 1)},
     slippage_bps : {Rat(50, 1)},
     gas_cost_usd : {Rat(5, 1)}]

\* What _get_db / _init_mongo can leave the caller with: no handle, a
\* handle whose inserts succeed, a handle whose inserts raise.
MongoStates == {"none", "ok", "failing"}

\* os.getenv("PRIVATE_KEY"): unset, set to the empty string, set to a key.
PrivateKeys == {NoneValue, "", "key"}

Step(op) == [op |-> op]

\* A viability test that never finds the list empty.
NotViableNever(trades) == FALSE

\* scheduler.py:139: `if not trades:`
NotViable(trades) == trades = <<>>

\* scheduler.py:126-135: the simulation document (timestamp, wallet, tokens left out).
SimDoc(trades, summary) ==
    [trades |-> trades,
     summary |-> summary,
     status |-> IF trades = <<>> THEN "skipped" ELSE "proposed",
     viable |-> trades # <<>>,
     reason |-> IF trades # <<>> THEN NoneValue
                ELSE "no trades proposed (below thresholds or no deviation)"]

\* An outcome rule without the PRIVATE_KEY test.
ExecOutcomeNoKeyTest(is_dry_run, private_key) ==
    IF is_dry_run
    THEN [status |-> "skipped", reason |-> "dry_run", tx_hash |-> NoneValue]
    ELSE [status |-> "success", reason |-> NoneValue, tx_hash |-> "0xPLACEHOLDER"]

\* executor.py:66-95: status, reason and tx_hash of one trade
\* (`not self.private_key` holds for None and for the empty string).
ExecOutcome(is_dry_run, private_key) ==
    IF is_dry_run
    THEN [status |-> "skipped", reason |-> "dry_run", tx_hash |-> NoneValue]
    ELSE IF private_key \in {NoneValue, ""}
    THEN [status |-> "skipped", reason |-> "missing PRIVATE_KEY", tx_hash |-> NoneValue]
    ELSE [status |-> "success", reason |-> NoneValue, tx_hash |-> "0xPLACEHOLDER"]

\* executor.py:128-143: the alert type sent for a status.
AlertTypeOf(status) ==
    IF status = "success" THEN "success"
    ELSE IF status = "failed" THEN "failure"
    ELSE "skipped"

RunInit ==
    /\ targets \in TargetMaps
    /\ balances = <<>>
    /\ prices = <<>>
    /\ calls = <<>>
    /\ sim_in = DefaultSimIn
    /\ sim_out = <<>>
    /\ alloc_out = <<>>
    /\ pc = "fetch"
    /\ cfg \in Configs
    /\ dry_run \in BOOLEAN
    /\ db = "none"
    /\ exec = <<>>
    /\ exec_results = <<>>
    /\ trace = <<>>

\* scheduler.py:99-104
Fetch ==
    /\ pc = "fetch"
    /\ prices' \in fetch_prices(Keys(targets))
    /\ balances' \in fetch_balances(Keys(targets))
    /\ pc' = "save_snapshot"
    /\ UNCHANGED <<targets, calls, sim_in, sim_out, alloc_out, cfg, dry_run, db,
                   exec, exec_results, trace>>

\* scheduler.py:106-107 with _get_db (49-66) and _save_snapshot (69-83)
SaveSnapshot ==
    /\ pc = "save_snapshot"
    /\ db' \in MongoStates
    /\ trace' = Append(trace,
           [op |-> "save_snapshot",
            stored |-> db' = "ok",
            total_value |-> compute_portfolio_value(balances, prices)])
    /\ pc' = "propose"
    /\ UNCHANGED <<targets, balances, prices, calls, sim_in, sim_out, alloc_out,
                   cfg, dry_run, exec, exec_results>>

\* scheduler.py:109-114
ProposeTrades ==
    /\ pc = "propose"
    /\ calls' = <<[threshold_pct |-> cfg.threshold_pct,
                   min_trade_usd |-> cfg.min_trade_usd,
                   trades |-> propose_rebalance_trades(targets, balances, prices,
                                  cfg.threshold_pct, cfg.min_trade_usd)]>>
    /\ trace' = Append(trace, Step("propose"))
    /\ pc' = "simulate"
    /\ UNCHANGED <<targets, balances, prices, sim_in, sim_out, alloc_out, cfg,
                   dry_run, db, exec, exec_results>>

\* scheduler.py:116-123
SimulateTrades ==
    /\ pc = "simulate"
    /\ sim_in' = [trades |-> calls[1].trades,
                  slippage_bps |-> cfg.slippage_bps,
                  gas_cost_usd |-> cfg.gas_cost_usd]
    /\ sim_out' = <<simulate_trades(calls[1].trades, prices, cfg.slippage_bps,
                                    cfg.gas_cost_usd, DefaultDex)>>
    /\ trace' = Append(trace, Step("simulate"))
    /\ pc' = "save_simulation"
    /\ UNCHANGED <<targets, balances, prices, calls, alloc_out, cfg, dry_run, db,
                   exec, exec_results>>

\* scheduler.py:125-136 with _save_simulation (86-92)
SaveSimulation ==
    /\ pc = "save_simulation"
    /\ trace' = Append(trace,
           [op |-> "save_simulation",
            stored |-> db = "ok",
            doc |-> SimDoc(calls[1].trades, sim_out[1].summary)])
    /\ pc' = "decide"
    /\ UNCHANGED <<targets, balances, prices, calls, sim_in, sim_out, alloc_out,
                   cfg, dry_run, db, exec, exec_results>>

\* scheduler.py:139-151: not viable, one "skipped" alert and return
SkipExecution ==
    /\ pc = "decide"
    /\ NotViable(calls[1].trades)
    /\ trace' = Append(trace,
           [op |-> "send_alerts", event_type |-> "simulation",
            alert_type |-> "skipped"])
    /\ pc' = "done"
    /\ UNCHANGED <<targets, balances, prices, calls, sim_in, sim_out, alloc_out,
                   cfg, dry_run, db, exec, exec_results>>

\* scheduler.py:154 with Executor.__init__ and _init_mongo (executor.py:21-51)
ConstructExecutor ==
    /\ pc = "decide"
    /\ ~NotViable(calls[1].trades)
    /\ \E private_key \in PrivateKeys, executed_trades \in MongoStates :
           exec' = <<[private_key |-> private_key,
                      executed_trades |-> executed_trades]>>
    /\ trace' = Append(trace, Step("executor_init"))
    /\ pc' = "execute"
    /\ UNCHANGED <<targets, balances, prices, calls, sim_in, sim_out, alloc_out,
                   cfg, dry_run, db, exec_results>>

\* executor.py:61-98: the next trade's outcome, appended to `results`
ExecuteTrade ==
    /\ pc = "execute"
    /\ Len(exec_results) < Len(calls[1].trades)
    /\ LET tr == calls[1].trades[Len(exec_results) + 1]
           out == ExecOutcome(dry_run, exec[1].private_key)
       IN  exec_results' = Append(exec_results,
               [token |-> tr.token,
                side |-> tr.side,
                amount |-> tr.amount,
                value_usd |-> tr.value_usd,
                target_allocation |-> tr.target_allocation,
                current_allocation |-> tr.current_allocation,
                status |-> out.status,
                tx_hash |-> out.tx_hash,
                reason |-> out.reason])
    /\ pc' = "write_result"
    /\ UNCHANGED <<targets, balances, prices, calls, sim_in, sim_out, alloc_out,
                   cfg, dry_run, db, exec, trace>>

\* executor.py:100-119: the insert into executed_trades, when there is a collection
WriteResult ==
    /\ pc = "write_result"
    /\ LET res == exec_results[Len(exec_results)]
       IN  trace' =
               IF exec[1].executed_trades = "none" THEN trace
               ELSE Append(trace,
                        [op |-> "insert_executed_trade",
                         stored |-> exec[1].executed_trades = "ok",
                         index |-> Len(exec_results),
                         token |-> res.token,
                         side |-> res.side,
                         amount |-> res.amount,
                         status |-> res.status,
                         reason |-> res.reason,
                         tx_hash |-> res.tx_hash])
    /\ pc' = "send_alert"
    /\ UNCHANGED <<targets, balances, prices, calls, sim_in, sim_out, alloc_out,
                   cfg, dry_run, db, exec, exec_results>>

\* executor.py:121-145: the alert for the trade just handled
SendAlert ==
    /\ pc = "send_alert"
    /\ trace' = Append(trace,
           [op |-> "send_alerts", event_type |-> "execution",
            alert_type |-> AlertTypeOf(exec_results[Len(exec_results)].status),
            index |-> Len(exec_results)])
    /\ pc' = "execute"
    /\ UNCHANGED <<targets, balances, prices, calls, sim_in, sim_out, alloc_out,
                   cfg, dry_run, db, exec, exec_results>>

\* executor.py:146 and scheduler.py:155-156: execute returns, run_once ends
ExecuteReturn ==
    /\ pc = "execute"
    /\ Len(exec_results) = Len(calls[1].trades)
    /\ pc' = "done"
    /\ UNCHANGED <<targets, balances, prices, calls, sim_in, sim_out, alloc_out,
                   cfg, dry_run, db, exec, exec_results, trace>>

RunNext ==
    \/ Fetch
    \/ SaveSnapshot
    \/ ProposeTrades
    \/ SimulateTrades
    \/ SaveSimulation
    \/ SkipExecution
    \/ ConstructExecutor
    \/ ExecuteTrade
    \/ WriteResult
    \/ SendAlert
    \/ ExecuteReturn

RunSpec == RunInit /\ [][RunNext]_vars

-----------------------------------------------------------------------------
(* propose_rebalance_trades followed by simulate_trades on binary64        *)
(* inputs: an even ETH/USDC target, ETH at 2000 and USDC at 1, a floor of  *)
(* max(100, 2.5%), and the holdings, slippage and gas drawn from a few     *)
(* values.                                                                 *)

ScenarioTargets == <<<<"ETH", Float(1, 2)>>, <<"USDC", Float(1, 2)>>>>

ScenarioPrices ==
    [t \in Tokens |-> IF t = "ETH" THEN Float(2000, 1) ELSE Float(1, 1)]

ScenarioBalances ==
    {[t \in Tokens |-> IF t = "ETH" THEN eth ELSE usdc] :
        eth \in {FZero, Float(1, 2), Float(1, 1), Float(2, 1)},
        usdc \in {FZero, Float(1000, 1), Float(2000, 1)}}

ScenarioConfigs ==
    [threshold_pct : {Float(5, 2)},
     min_trade_usd : {Float(100, 1)},
     slippage_bps : {FZero, Float(30, 1), Float(50, 1)},
     gas_cost_usd : {FZero, Float(5, 1)}]

ScenarioInit ==
    /\ targets = ScenarioTargets
    /\ balances \in ScenarioBalances
    /\ prices = ScenarioPrices
    /\ calls = <<>>
    /\ sim_in = DefaultSimIn
    /\ sim_out = <<>>
    /\ alloc_out = <<>>
    /\ pc = "idle"
    /\ cfg \in ScenarioConfigs
    /\ dry_run = TRUE
    /\ db = "none"
    /\ exec = <<>>
    /\ exec_results = <<>>
    /\ trace = <<>>

ScenarioPropose ==
    /\ calls = <<>>
    /\ calls' = <<[threshold_pct |-> cfg.threshold_pct,
                   min_trade_usd |-> cfg.min_trade_usd,
                   trades |-> propose_rebalance_trades(targets, balances, prices,
                                  cfg.threshold_pct, cfg.min_trade_usd)]>>
    /\ UNCHANGED <<targets, balances, prices, sim_in, sim_out, alloc_out, runVars>>

ScenarioSimulate ==
    /\ calls # <<>>
    /\ sim_out = <<>>
    /\ sim_in' = [trades |-> calls[1].trades,
                  slippage_bps |-> cfg.slippage_bps,
                  gas_cost_usd |-> cfg.gas_cost_usd]
    /\ sim_out' = <<simulate_trades(calls[1].trades, prices, cfg.slippage_bps,
                                    cfg.gas_cost_usd, DefaultDex)>>
    /\ UNCHANGED <<targets, balances, prices, calls, alloc_out, runVars>>

ScenarioNext == ScenarioPropose \/ ScenarioSimulate

ScenarioSpec == ScenarioInit /\ [][ScenarioNext]_vars

-----------------------------------------------------------------------------
(* The quantities the tracker's properties speak of, stated on the inputs. *)

ValueOf(t) == RMul(Get(balances, t, Zero), Get(prices, t, Zero))

RECURSIVE SumOfValues(_)
SumOfValues(S) ==
    IF S = {} THEN Zero
    ELSE LET t == CHOOSE x \in S : TRUE
         IN  RAdd(ValueOf(t), SumOfValues(S \ {t}))

PortfolioValue == SumOfValues(DOMAIN balances \cup DOMAIN prices)

Allocation(t) ==
    IF RLe(PortfolioValue, Zero) THEN Zero ELSE RDiv(ValueOf(t), PortfolioValue)

Delta(t) == RSub(TargetOf(targets, t), Allocation(t))

Drift(t) == RAbs(RMul(Delta(t), PortfolioValue))

PctFloor(call) == RMul(RDiv(call.threshold_pct, Rat(100, 1)), PortfolioValue)

Floor(call) == RMax(call.min_trade_usd, PctFloor(call))

HasUsablePrice(t) == t \in DOMAIN prices /\ RLt(Zero, prices[t])

Proposed(call) == {call.trades[i].token : i \in 1..Len(call.trades)}

CallIds == 1..Len(calls)

-----------------------------------------------------------------------------
(* Properties of propose_rebalance_trades, checked under Spec.             *)

\* C1: for every target token t, a proposal for t is emitted if and only if
\* the portfolio value is > 0, the drift |(target - current) * value| is at
\* least max(min_trade_usd, threshold_pct/100 * value), and prices[t] > 0.
C1_ProposalIffGate ==
    \A c \in CallIds : \A t \in KeySet(targets) :
        (t \in Proposed(calls[c]))
            <=> (/\ RLt(Zero, PortfolioValue)
                 /\ RLe(Floor(calls[c]), Drift(t))
                 /\ HasUsablePrice(t))

\* A call in which one token's drift equals a positive floor and is emitted
\* while another priced token's drift is below the floor and is skipped.
C1_Witness ==
    \E c \in CallIds : \E t, u \in KeySet(targets) :
        /\ RLt(Zero, Floor(calls[c]))
        /\ calls[c].min_trade_usd # PctFloor(calls[c])
        /\ Drift(t) = Floor(calls[c])
        /\ t \in Proposed(calls[c])
        /\ HasUsablePrice(u)
        /\ RLt(Drift(u), Floor(calls[c]))
        /\ u \notin Proposed(calls[c])

\* C2: when the total portfolio value is <= 0, the call returns an empty list.
C2_ZeroValueGuard ==
    \A c \in CallIds :
        RLe(PortfolioValue, Zero) => calls[c].trades = <<>>

\* A call on a portfolio worth nothing, with a priced target token and a zero
\* floor: only the guard keeps the list empty.
C2_Witness ==
    \E c \in CallIds : \E t \in KeySet(targets) :
        /\ RLe(PortfolioValue, Zero)
        /\ HasUsablePrice(t)
        /\ Floor(calls[c]) = Zero
        /\ calls[c].trades = <<>>

\* C3: a target token whose price is <= 0 or missing gets no proposal,
\* whatever its drift; the other target tokens are still evaluated.
C3_PriceGuard ==
    \A c \in CallIds : \A t \in KeySet(targets) :
        ~HasUsablePrice(t) =>
            /\ t \notin Proposed(calls[c])
            /\ \A u \in KeySet(targets) :
                   (/\ HasUsablePrice(u)
                    /\ RLt(Zero, PortfolioValue)
                    /\ RLe(Floor(calls[c]), Drift(u))) => u \in Proposed(calls[c])

\* A call in which a token without a usable price drifts above the floor and is
\* left out while another token is proposed.
C3_Witness ==
    \E c \in CallIds : \E t, u \in KeySet(targets) :
        /\ ~HasUsablePrice(t)
        /\ RLt(Zero, PortfolioValue)
        /\ RLt(Zero, Drift(t))
        /\ RLe(Floor(calls[c]), Drift(t))
        /\ t \notin Proposed(calls[c])
        /\ u \in Proposed(calls[c])

\* C4: every proposal has amount > 0 and value_usd > 0.
C4_PositiveAmount ==
    \A c \in CallIds : \A i \in 1..Len(calls[c].trades) :
        /\ RLt(Zero, calls[c].trades[i].amount)
        /\ RLt(Zero, calls[c].trades[i].value_usd)

\* C5: with the inputs fixed, the tokens proposed under higher thresholds are
\* a subset of the tokens proposed under lower ones.
C5_ThresholdMonotone ==
    \A c, d \in CallIds :
        (/\ RLe(calls[c].threshold_pct, calls[d].threshold_pct)
         /\ RLe(calls[c].min_trade_usd, calls[d].min_trade_usd))
            => Proposed(calls[d]) \subseteq Proposed(calls[c])

\* Two calls, the second with a strictly higher floor, that keeps one token
\* and loses another.
C5_Witness ==
    /\ Len(calls) = 2
    /\ RLe(calls[1].threshold_pct, calls[2].threshold_pct)
    /\ RLe(calls[1].min_trade_usd, calls[2].min_trade_usd)
    /\ Proposed(calls[2]) # {}
    /\ Proposed(calls[2]) # Proposed(calls[1])

-----------------------------------------------------------------------------
(* Properties of simulate_trades, checked under SimSpec.                   *)

Simulated == sim_out # <<>>
Results == sim_out[1].trades
Summary == sim_out[1].summary
ResultIds == 1..Len(Results)

\* slippageBps / 10000, as the property under test writes it.
RawSlip == RDiv(sim_in.slippage_bps, Rat(10000, 1))

\* max(slippageBps / 10000, 0)
ClampedSlip == RMax(RawSlip, Zero)

BuyCost(r, slip) ==
    RAdd(RMul(RMul(r.amount, prices[r.token]), RAdd(One, slip)), sim_in.gas_cost_usd)

SellProceeds(r, slip) ==
    RMax(Zero,
         RSub(RMul(RMul(r.amount, prices[r.token]), RSub(One, slip)),
              sim_in.gas_cost_usd))

C8_SellProceedsNonNegative ==
    Simulated =>
        /\ \A i \in ResultIds :
               Results[i].side = "sell" => RLe(Zero, Results[i].proceeds_usd)
        /\ RLe(Zero, Summary.total_sell_proceeds_usd)

\* A simulated sell whose gas cost exceeds amount * quoted price.
C8_Witness ==
    /\ Simulated
    /\ \E i \in ResultIds :
           /\ Results[i].side = "sell"
           /\ RLt(RMul(Results[i].amount, Results[i].quoted_price), sim_in.gas_cost_usd)
           /\ Results[i].proceeds_usd = Zero

PriceUsable(tr) == tr.token \in DOMAIN prices /\ RLt(Zero, prices[tr.token])

\* The input trades whose token has a usable price, in input order.
KeptTrades == SelectSeq(sim_in.trades, PriceUsable)

\* C9: a trade whose token has a price <= 0 or no price is dropped: the
\* results are the results of the remaining trades in input order, the totals
\* are those of simulating the remaining trades alone, and
\* est_total_gas_usd = gasCostUsd * (number of results).
C9_DroppedTrades ==
    Simulated =>
        /\ Len(Results) = Len(KeptTrades)
        /\ \A i \in ResultIds :
               /\ Results[i].token = KeptTrades[i].token
               /\ Results[i].side = KeptTrades[i].side
               /\ Results[i].amount = KeptTrades[i].amount
               /\ PriceUsable(Results[i])
        /\ Summary.est_total_gas_usd
               = RMul(sim_in.gas_cost_usd, Rat(Len(Results), 1))
        /\ Summary = simulate_trades(KeptTrades, prices, sim_in.slippage_bps,
                                     sim_in.gas_cost_usd, DefaultDex).summary

\* A simulation with positive gas in which one trade is dropped for its price
\* and another is kept.
C9_Witness ==
    /\ Simulated
    /\ RLt(Zero, sim_in.gas_cost_usd)
    /\ Len(KeptTrades) < Len(sim_in.trades)
    /\ Len(Results) > 0

RECURSIVE SumCosts(_, _)
SumCosts(results, i) ==
    IF i > Len(results) THEN Zero
    ELSE IF results[i].side = "buy"
         THEN RAdd(results[i].cost_usd, SumCosts(results, i + 1))
         ELSE SumCosts(results, i + 1)

RECURSIVE SumProceeds(_, _)
SumProceeds(results, i) ==
    IF i > Len(results) THEN Zero
    ELSE IF results[i].side = "sell"
         THEN RAdd(results[i].proceeds_usd, SumProceeds(results, i + 1))
         ELSE SumProceeds(results, i + 1)

\* C10: total_buy_cost_usd is the sum of cost_usd over the buy results,
\* total_sell_proceeds_usd the sum of proceeds_usd over the sell results and
\* net_usd_effect their difference, sells minus buys; all three are 0 when
\* there are no results.
C10_SummaryTotals ==
    Simulated =>
        /\ Summary.total_buy_cost_usd = SumCosts(Results, 1)
        /\ Summary.total_sell_proceeds_usd = SumProceeds(Results, 1)
        /\ Summary.net_usd_effect
               = RSub(SumProceeds(Results, 1), SumCosts(Results, 1))
        /\ Results = <<>> =>
               /\ Summary.total_buy_cost_usd = Zero
               /\ Summary.total_sell_proceeds_usd = Zero
               /\ Summary.net_usd_effect = Zero

\* A simulation that holds a buy and a sell with different totals.
C10_Witness ==
    /\ Simulated
    /\ \E i, j \in ResultIds : Results[i].side = "buy" /\ Results[j].side = "sell"
    /\ RLt(Zero, Summary.total_sell_proceeds_usd)
    /\ Summary.total_buy_cost_usd # Summary.total_sell_proceeds_usd

-----------------------------------------------------------------------------
(* Properties of current_allocations, checked under AllocSpec.             *)

\* C13: for every requested token t, current_allocations returns 0 when the
\* portfolio value (the sum of balance * price over the tokens of either
\* map, missing entries counted as 0) is <= 0, and otherwise
\* balance(t) * price(t) / portfolioValue; a requested token absent from
\* balances or prices gets 0, and no division by a total <= 0 takes place.
C13_CurrentAllocations ==
    alloc_out # <<>> =>
        /\ DOMAIN alloc_out[1] = KeySet(targets)
        /\ \A t \in KeySet(targets) :
               /\ RLe(PortfolioValue, Zero) => alloc_out[1][t] = Zero
               /\ RLt(Zero, PortfolioValue) =>
                      RMul(alloc_out[1][t], PortfolioValue) = ValueOf(t)
               /\ (t \notin DOMAIN balances \/ t \notin DOMAIN prices) =>
                      alloc_out[1][t] = Zero

\* A result on a portfolio of negative value that holds a token of nonzero
\* value, with a requested token missing from one of the maps.
C13_Witness ==
    /\ alloc_out # <<>>
    /\ RLt(PortfolioValue, Zero)
    /\ \E t \in KeySet(targets) : ValueOf(t) # Zero /\ alloc_out[1][t] = Zero
    /\ \E t \in KeySet(targets) : t \notin DOMAIN balances \cap DOMAIN prices

-----------------------------------------------------------------------------
(* Properties of a run_once cycle, checked under RunSpec.                  *)

RunTrades == calls[1].trades

\* C16: when simulate_trades is given the list propose_rebalance_trades
\* returned and the same prices, it drops no trade: the per-trade results
\* have the length, tokens, sides, amounts and order of the proposals,
\* est_total_gas_usd is gas_cost_usd times the number of proposals, and a
\* non-empty proposal list gives a non-empty simulation.
C16_NoTradeDropped ==
    (calls # <<>> /\ sim_out # <<>>) =>
        /\ Len(Results) = Len(RunTrades)
        /\ \A i \in 1..Len(RunTrades) :
               /\ i \in DOMAIN Results
               /\ Results[i].token = RunTrades[i].token
               /\ Results[i].side = RunTrades[i].side
               /\ Results[i].amount = RunTrades[i].amount
        /\ Summary.est_total_gas_usd =
               RMul(cfg.gas_cost_usd, Rat(Len(RunTrades), 1))
        /\ (RunTrades # <<>> => Results # <<>>)

\* A simulated cycle with a proposal, in which another configured token was
\* off target but had a negative price, so the proposer left it out.
C16_Witness ==
    /\ calls # <<>>
    /\ sim_out # <<>>
    /\ Len(RunTrades) = 1
    /\ Len(Results) = 1
    /\ \E t \in KeySet(targets) :
           /\ RLt(prices[t], Zero)
           /\ TargetOf(targets, t) # Zero

-----------------------------------------------------------------------------
(* Properties of Executor.execute, checked under RunSpec.                  *)

\* The positions in the trace of the executed_trades insert and of the
\* alert for the i-th trade.
WritesOf(i) ==
    {k \in DOMAIN trace :
        trace[k].op = "insert_executed_trade" /\ trace[k].index = i}
AlertsOf(i) ==
    {k \in DOMAIN trace :
        /\ trace[k].op = "send_alerts"
        /\ trace[k].event_type = "execution"
        /\ trace[k].index = i}

KeyPresent == exec[1].private_key \notin {NoneValue, ""}

\* The i-th result is the i-th input trade with the status, reason and
\* tx_hash that dry_run and the key call for.
OutcomeAsStated(i) ==
    LET r == exec_results[i]
        tr == RunTrades[i]
    IN  /\ r.token = tr.token
        /\ r.side = tr.side
        /\ r.amount = tr.amount
        /\ r.value_usd = tr.value_usd
        /\ dry_run =>
               /\ r.status = "skipped"
               /\ r.reason = "dry_run"
               /\ r.tx_hash = NoneValue
        /\ (~dry_run /\ ~KeyPresent) =>
               /\ r.status = "skipped"
               /\ r.reason = "missing PRIVATE_KEY"
               /\ r.tx_hash = NoneValue
        /\ r.tx_hash # NoneValue => (~dry_run /\ KeyPresent)

\* One result per input trade, in input order, each as stated; at most one
\* alert per trade, of the type of its status, and exactly one on return.
ResultsAsStated ==
    /\ Len(exec_results) <= Len(RunTrades)
    /\ pc = "done" => Len(exec_results) = Len(RunTrades)
    /\ \A i \in DOMAIN exec_results :
           /\ OutcomeAsStated(i)
           /\ Cardinality(AlertsOf(i)) <= 1
           /\ pc = "done" => Cardinality(AlertsOf(i)) = 1
           /\ \A a \in AlertsOf(i) :
                  trace[a].alert_type =
                      (IF exec_results[i].status = "success" THEN "success" ELSE "skipped")

\* C14 as stated: execute never submits in dry-run mode or without a key
\* (status 'skipped', the matching reason, tx_hash None; a tx_hash only with
\* dry_run false and a key), returns one result per input trade in input
\* order, and every trade's result is written to executed_trades before its
\* alert is sent.
C14_AsStated ==
    exec # <<>> =>
        /\ ResultsAsStated
        /\ \A i \in DOMAIN exec_results :
               \A a \in AlertsOf(i) : \E w \in WritesOf(i) : w < a

\* C14, amended: the outcomes and the result list are as stated; when the
\* executor has an executed_trades collection, the insert of a trade's result
\* (with the result's status, reason and tx_hash) comes before that trade's
\* alert and is the only one; when it has none, nothing is written and the
\* alert is sent all the same.
C14_WrittenWhenAvailable ==
    exec # <<>> =>
        /\ ResultsAsStated
        /\ \A i \in DOMAIN exec_results :
               /\ Cardinality(WritesOf(i)) <= 1
               /\ \A w \in WritesOf(i) :
                      /\ exec[1].executed_trades # "none"
                      /\ trace[w].stored = (exec[1].executed_trades = "ok")
                      /\ trace[w].token = exec_results[i].token
                      /\ trace[w].side = exec_results[i].side
                      /\ trace[w].amount = exec_results[i].amount
                      /\ trace[w].status = exec_results[i].status
                      /\ trace[w].reason = exec_results[i].reason
                      /\ trace[w].tx_hash = exec_results[i].tx_hash
               /\ \A a \in AlertsOf(i) :
                      IF exec[1].executed_trades = "none"
                      THEN WritesOf(i) = {}
                      ELSE \E w \in WritesOf(i) : w < a

\* execute has returned two results for a live run (dry_run false) without
\* a key: both skipped, both stored in executed_trades, both alerted.
C14_Witness ==
    /\ pc = "done"
    /\ exec # <<>>
    /\ ~dry_run
    /\ exec[1].private_key = NoneValue
    /\ exec[1].executed_trades = "ok"
    /\ Len(exec_results) = 2
    /\ \A i \in 1..2 :
           /\ exec_results[i].status = "skipped"
           /\ exec_results[i].tx_hash = NoneValue
           /\ \E w \in WritesOf(i), a \in AlertsOf(i) : w < a /\ trace[w].stored

-----------------------------------------------------------------------------
(* Properties of the order of a run_once cycle, checked under RunSpec.     *)

RunOrder == <<"save_snapshot", "propose", "simulate", "save_simulation">>

Decided == pc \in {"execute", "write_result", "send_alert", "done"}

SimulationAlerts ==
    {k \in DOMAIN trace :
        trace[k].op = "send_alerts" /\ trace[k].event_type = "simulation"}

ExecutorCalls == {k \in DOMAIN trace : trace[k].op = "executor_init"}

\* The four steps come first, once each and in the order of RunOrder, the
\* decision comes after them, the executor is constructed and execute runs
\* to its return exactly when the proposal list is non-empty, and an empty
\* list leads to one 'skipped' simulation alert, a simulation document with
\* status 'skipped' and viable false, and no executor.
CycleAsStated ==
    /\ \A k \in DOMAIN trace :
           /\ k <= Len(RunOrder) => trace[k].op = RunOrder[k]
           /\ k > Len(RunOrder) =>
                  trace[k].op \notin {RunOrder[j] : j \in DOMAIN RunOrder}
    /\ pc = "decide" => Len(trace) = Len(RunOrder)
    /\ Decided => Len(trace) > Len(RunOrder)
    /\ exec_results # <<>> => exec # <<>>
    /\ (exec # <<>>) = (ExecutorCalls # {})
    /\ exec # <<>> =>
           /\ RunTrades # <<>>
           /\ ExecutorCalls = {Len(RunOrder) + 1}
           /\ SimulationAlerts = {}
           /\ trace[Len(RunOrder)].doc.status = "proposed"
           /\ trace[Len(RunOrder)].doc.viable
    /\ pc = "done" =>
           /\ (exec # <<>>) = (RunTrades # <<>>)
           /\ Len(exec_results) = Len(RunTrades)
    /\ (pc = "done" /\ RunTrades = <<>>) =>
           /\ SimulationAlerts = {Len(RunOrder) + 1}
           /\ trace[Len(RunOrder) + 1].alert_type = "skipped"
           /\ Len(trace) = Len(RunOrder) + 1
           /\ trace[Len(RunOrder)].doc.status = "skipped"
           /\ ~trace[Len(RunOrder)].doc.viable
           /\ trace[Len(RunOrder)].doc.trades = <<>>
           /\ exec = <<>>
           /\ exec_results = <<>>

\* C15 as stated: in every cycle the snapshot is saved, the trades are
\* proposed, then simulated, the simulation document is saved, and then the
\* viability decision is taken; the executor is invoked iff the proposal
\* list is non-empty; an empty list gives exactly one 'skipped' simulation
\* alert, a saved document with status 'skipped' and viable false, and no
\* executor.
C15_AsStated ==
    /\ CycleAsStated
    /\ (pc = "decide" \/ Decided) =>
           /\ trace[1].stored
           /\ trace[Len(RunOrder)].stored

\* C15, amended: the order, the decision and the skipped branch are as
\* stated, with the two saves being the calls _save_snapshot and
\* _save_simulation: each stores its document only when _get_db returned a
\* database and the insert succeeded, and the cycle goes on either way.
C15_StoredWhenAvailable ==
    /\ CycleAsStated
    /\ (pc = "decide" \/ Decided) =>
           /\ trace[1].stored = (db = "ok")
           /\ trace[Len(RunOrder)].stored = (db = "ok")
           /\ trace[1].total_value = PortfolioValue

\* A finished cycle on what the placeholder fetchers return (every price and
\* balance 0) with a database: nothing proposed, the 'skipped' document
\* stored, one 'skipped' alert, no executor.
C15_Witness ==
    /\ pc = "done"
    /\ KeySet(targets) = Tokens
    /\ \A t \in Tokens : prices[t] = Zero /\ balances[t] = Zero
    /\ db = "ok"
    /\ RunTrades = <<>>
    /\ trace[Len(RunOrder)].stored
    /\ trace[Len(RunOrder)].doc.status = "skipped"
    /\ Cardinality(SimulationAlerts) = 1
    /\ exec = <<>>

-----------------------------------------------------------------------------
(* The worked example, checked under ScenarioSpec.                         *)

\* Balances {ETH: 1, USDC: 0}, slippage 50 bps, gas 5 (targets, prices and
\* thresholds are those of every ScenarioSpec state).
IsScenario ==
    /\ targets = ScenarioTargets
    /\ prices = ScenarioPrices
    /\ balances = [t \in Tokens |-> IF t = "ETH" THEN Float(1, 1) ELSE FZero]
    /\ cfg.threshold_pct = Float(5, 2)
    /\ cfg.min_trade_usd = Float(100, 1)
    /\ cfg.slippage_bps = Float(50, 1)
    /\ cfg.gas_cost_usd = Float(5, 1)

\* Exactly [sell 0.5 ETH worth 1000, buy 1000 USDC worth 1000], in that order.
ProposalsAsStated ==
    /\ Len(RunTrades) = 2
    /\ RunTrades[1].token = "ETH"
    /\ RunTrades[1].side = "sell"
    /\ RunTrades[1].amount = Float(1, 2)
    /\ RunTrades[1].value_usd = Float(1000, 1)
    /\ RunTrades[2].token = "USDC"
    /\ RunTrades[2].side = "buy"
    /\ RunTrades[2].amount = Float(1000, 1)
    /\ RunTrades[2].value_usd = Float(1000, 1)

\* |x - y| <= 10^-9
Near(x, y) == FLe(FAbs(FSub(x, y)), Float(1, 1000000000))

\* The binary64 number next below x, for x > 0 not a power of two.
Below(x) == <<x[1], LSub(x[2], <<1>>), x[3]>>

\* C11 as stated: in the scenario propose_rebalance_trades returns exactly
\* [sell 0.5 ETH with value_usd 1000, buy 1000 USDC with value_usd 1000], and
\* simulate_trades on them gives ETH proceeds_usd 990, USDC cost_usd 1010 and
\* net_usd_effect -20.
C11_AsStated ==
    IsScenario =>
        /\ calls # <<>> => ProposalsAsStated
        /\ sim_out # <<>> =>
               /\ Len(Results) = 2
               /\ Results[1].proceeds_usd = Float(990, 1)
               /\ Results[2].cost_usd = Float(1010, 1)
               /\ Summary.net_usd_effect = Float(-20, 1)

\* C11, amended: the proposals are exactly as stated and the ETH proceeds
\* are exactly 990 (at a quoted price of exactly 1990); the USDC cost_usd and
\* the net_usd_effect are 1010 and -20 to within 10^-9 but not equal to
\* them: the cost is the binary64 number just below 1010, and the net effect
\* is 990 minus that cost.
C11_UpToRounding ==
    IsScenario =>
        /\ calls # <<>> => ProposalsAsStated
        /\ sim_out # <<>> =>
               /\ Len(Results) = 2
               /\ Results[1].quoted_price = Float(1990, 1)
               /\ Results[1].proceeds_usd = Float(990, 1)
               /\ Near(Results[2].cost_usd, Float(1010, 1))
               /\ Near(Summary.net_usd_effect, Float(-20, 1))
               /\ Results[2].cost_usd = Below(Float(1010, 1))
               /\ Summary.net_usd_effect = FSub(Float(990, 1), Results[2].cost_usd)
               /\ Summary.est_total_gas_usd = Float(10, 1)

\* The scenario, proposed and simulated.
C11_Witness ==
    /\ IsScenario
    /\ calls # <<>>
    /\ Len(RunTrades) = 2
    /\ sim_out # <<>>
    /\ Len(Results) = 2
    /\ Results[2].side = "buy"

=============================================================================
